---------------------------- MODULE Spec2Model ----------------------------
(***************************************************************************)
(* WordBash CDK application: the three stacks app.py declares, the order   *)
(* in which a provisioning engine may apply them, and the behaviour of the *)
(* declared resources (listener routing, autoscaling, NAT egress, IAM      *)
(* grants, the published SSM parameter, table teardown).                   *)
(*                                                                         *)
(* Strings that the program concatenates, parses or matches are modelled   *)
(* as sequences of one-character strings; a CDK token (a value known only  *)
(* at deploy time) is one element of such a sequence.                      *)
(***************************************************************************)
EXTENDS Integers, Sequences, FiniteSets, TLC

VARIABLES
    ctx,            \* the context inputs handed to cdk.App()
    pc,             \* position in app.py
    env,            \* cdk.Environment built at app.py:10
    network_stack,  \* app.py:16
    data_stack,     \* app.py:17
    compute_stack,  \* app.py:18
    dependencies,   \* pairs <<stack, stack it depends on>>
    assembly,       \* the stacks app.synth() emitted
    status,         \* provisioning status of every stack
    table,          \* the physical table
    replicas,       \* running replica count per service group
    natDown,        \* NAT gateways (by zone) that are unavailable
    routed,         \* the request the listener is forwarding
    call,           \* the last ssm:GetParameter call a container made
    prev            \* the previous synthesis run (context and declarations)

vars == <<ctx, pc, env, network_stack, data_stack, compute_stack, dependencies,
          assembly, status, table, replicas, natDown, routed, call, prev>>

---------------------------------------------------------------------------
(* Bounds of the model *)

\* longest request path the listener is offered
MaxPathLen == 4

\* number of times the application is synthesized again with a changed context
MaxResynth == 1

---------------------------------------------------------------------------
(* String literals of the source, as character sequences *)

S_ws_pattern == <<"/", "w", "s", "/", "*">>
S_ws_suffix == <<"/", "w", "s">>
S_ws_scheme == <<"w", "s", ":", "/", "/">>
S_http_scheme == <<"h", "t", "t", "p", ":", "/", "/">>
S_ws_param_path == <<"/", "w", "o", "r", "d", "b", "a", "s", "h", "/", "w", "s", "_", "e", "n", "d", "p", "o", "i", "n", "t">>
S_arn_ssm == <<"a", "r", "n", ":", "a", "w", "s", ":", "s", "s", "m", ":">>
S_colon == <<":">>
S_colon_parameter == <<":", "p", "a", "r", "a", "m", "e", "t", "e", "r">>
S_web_default == <<".", ".", "/", "w", "e", "b">>
S_game_default == <<".", ".", "/", "g", "a", "m", "e">>
S_healthz == <<"/", "h", "e", "a", "l", "t", "h", "z">>
S_table_name == <<"w", "o", "r", "d", "b", "a", "s", "h", "_", "g", "a", "m", "e", "s">>
S_INFO == <<"I", "N", "F", "O">>
S_empty == <<>>

(* Tokens: values CDK leaves unresolved until deploy time *)
TOK_REGION == "${AWS::Region}"
TOK_ACCOUNT == "${AWS::AccountId}"
TOK_ALB_DNS == "${WordBashALB.DNSName}"
TOK_TABLE_ARN == "${WordBashGamesTable.Arn}"
TOK_TABLE_NAME == "${WordBashGamesTable}"
Tokens == {TOK_REGION, TOK_ACCOUNT, TOK_ALB_DNS, TOK_TABLE_ARN, TOK_TABLE_NAME}

---------------------------------------------------------------------------
(* Context values: what try_get_context returns *)

None == [t |-> "none", s |-> <<>>, b |-> FALSE, n |-> 0]
Str(s) == [t |-> "str", s |-> s, b |-> FALSE, n |-> 0]
Bool(b) == [t |-> "bool", s |-> <<>>, b |-> b, n |-> 0]
Num(n) == [t |-> "num", s |-> <<>>, b |-> FALSE, n |-> n]

\* Python truthiness, as `x or y` and `a if x else b` test it
Truthy(v) ==
    CASE v.t = "none" -> FALSE
      [] v.t = "str" -> Len(v.s) > 0
      [] v.t = "bool" -> v.b
      [] v.t = "num" -> v.n # 0

\* `v or default`, for a string-valued context key
OrStr(v, default) == IF Truthy(v) THEN v.s ELSE default

Min(a, b) == IF a < b THEN a ELSE b
Range(f) == {f[i] : i \in DOMAIN f}

---------------------------------------------------------------------------
(* Context inputs the model enumerates *)

AccountValues == {None, Str(<<"1", "2", "3", "4", "5", "6", "7", "8", "9", "0", "1", "2">>)}
RegionValues == {None, Str(<<"u", "s", "-", "e", "a", "s", "t", "-", "1">>)}
WebPathValues == {None, Str(<<".", ".", "/", "w", "2">>)}
GamePathValues == {None, Str(<<".", ".", "/", "g", "2">>)}
ApiBaseUrlValues == {None, Str(<<"h", "t", "t", "p", ":", "/", "/", "a", "p", "i">>)}
KeepDataValues == {None, Bool(FALSE), Bool(TRUE), Str(<<>>),
                   Str(<<"f", "a", "l", "s", "e">>), Num(0), Num(1)}

ContextKeys == {"account", "region", "web_image_path", "game_image_path",
                "api_base_url", "keep_data"}

ContextValues(k) ==
    CASE k = "account" -> AccountValues
      [] k = "region" -> RegionValues
      [] k = "web_image_path" -> WebPathValues
      [] k = "game_image_path" -> GamePathValues
      [] k = "api_base_url" -> ApiBaseUrlValues
      [] k = "keep_data" -> KeepDataValues

Contexts == {c \in [ContextKeys -> UNION {ContextValues(k) : k \in ContextKeys}] :
                \A k \in ContextKeys : c[k] \in ContextValues(k)}

try_get_context(c, k) == c[k]

\* where the stacks land when the environment leaves account or region open
DeployAccount == <<"2", "1", "0", "9", "8", "7", "6", "5", "4", "3", "2", "1">>
DeployRegion == <<"e", "u", "-", "w", "e", "s", "t", "-", "3">>
DeployAlbDns == <<"a", "l", "b", ".", "t", "e", "s", "t">>

---------------------------------------------------------------------------
(* String operations *)

RECURSIVE Concat(_)
\* an f-string: the pieces joined in order
Concat(parts) == IF parts = <<>> THEN <<>> ELSE Head(parts) \o Concat(Tail(parts))

RECURSIVE Glob(_, _)
\* wildcard match as the load balancer and IAM evaluate it:
\* "*" stands for zero or more characters, "?" for exactly one
Glob(p, s) ==
    IF p = <<>> THEN s = <<>>
    ELSE IF Head(p) = "*" THEN Glob(Tail(p), s) \/ (s # <<>> /\ Glob(p, Tail(s)))
    ELSE IF Head(p) = "?" THEN s # <<>> /\ Glob(Tail(p), Tail(s))
    ELSE s # <<>> /\ Head(s) = Head(p) /\ Glob(Tail(p), Tail(s))

\* the value a token takes in deployment d = [account, region]
ResolveToken(tok, d) ==
    CASE tok = TOK_REGION -> d.region
      [] tok = TOK_ACCOUNT -> d.account
      [] tok = TOK_ALB_DNS -> DeployAlbDns
      [] tok = TOK_TABLE_NAME -> S_table_name
      [] tok = TOK_TABLE_ARN ->
            Concat(<< <<"a", "r", "n", ":", "a", "w", "s", ":", "d", "y", "n", "a", "m", "o", "d", "b", ":">>,
                      d.region, S_colon, d.account,
                      <<":", "t", "a", "b", "l", "e", "/">>, S_table_name >>)

RECURSIVE Resolve(_, _)
\* a declared string with every token replaced by its deploy-time value
Resolve(str, d) ==
    IF str = <<>> THEN <<>>
    ELSE (IF Head(str) \in Tokens THEN ResolveToken(Head(str), d) ELSE <<Head(str)>>)
            \o Resolve(Tail(str), d)

\* position of the first "/" of s at or after i, or 0
FirstSlash(s, i) ==
    IF \E j \in i..Len(s) : s[j] = "/"
    THEN CHOOSE j \in i..Len(s) : s[j] = "/" /\ \A k \in i..(j - 1) : s[k] # "/"
    ELSE 0

\* the path a client requests when it connects to url (scheme://host/path)
UrlPath(url) ==
    LET sep == CHOOSE i \in 1..Len(url) :
                   /\ i + 2 <= Len(url)
                   /\ SubSeq(url, i, i + 2) = <<":", "/", "/">>
                   /\ \A k \in 1..(i - 1) : url[k] # ":"
        slash == FirstSlash(url, sep + 3)
    IN  IF slash = 0 THEN <<"/">> ELSE SubSeq(url, slash, Len(url))

---------------------------------------------------------------------------
(* app.py: the environment *)

Environment(c) ==
    [account |-> try_get_context(c, "account"),
     region |-> try_get_context(c, "region")]

\* Stack.account / Stack.region: the configured value, or a token
StackAccount(e) == IF e.account.t = "none" THEN <<TOK_ACCOUNT>> ELSE e.account.s
StackRegion(e) == IF e.region.t = "none" THEN <<TOK_REGION>> ELSE e.region.s

\* the account and region the stacks are deployed to
Deployment(e) ==
    [account |-> IF e.account.t = "none" THEN DeployAccount ELSE e.account.s,
     region |-> IF e.region.t = "none" THEN DeployRegion ELSE e.region.s]

\* Stack.availability_zones: two zones for an environment-agnostic stack,
\* the zones of the region (three here) otherwise
AvailabilityZones(e) ==
    IF e.account.t = "none" \/ e.region.t = "none" THEN 1..2 ELSE 1..3

---------------------------------------------------------------------------
(* network_stack.py *)

\* ec2.Vpc: one subnet per configuration per zone, the NAT gateways in the
\* public subnets of the first zones, every private subnet routed to a gateway
Vpc(e, max_azs, nat_gateways, subnet_configuration) ==
    LET nz == Min(max_azs, Cardinality(AvailabilityZones(e)))
        ngw == Min(nat_gateways, nz)
    IN  [id |-> "WordBashVpc",
         azs |-> 1..nz,
         subnets |-> {[az |-> a, name |-> c.name, subnet_type |-> c.subnet_type,
                       cidr_mask |-> c.cidr_mask] :
                          a \in 1..nz, c \in Range(subnet_configuration)},
         nat_gateways |-> 1..ngw,
         \* default route of the private subnet of zone a
         nat_route |-> [a \in 1..nz |-> IF ngw = 0 THEN 0 ELSE ((a - 1) % ngw) + 1]]

SubnetConfiguration ==
    << [name |-> "Public", subnet_type |-> "PUBLIC", cidr_mask |-> 24],
       [name |-> "Private", subnet_type |-> "PRIVATE_WITH_EGRESS", cidr_mask |-> 24] >>

\* faulty variant, for sensitivity checks: nat_gateways left at its default, one per zone
NetworkStackNatPerZone(e) ==
    [id |-> "WordBashNetworkStack", env |-> e,
     vpc |-> Vpc(e, 2, 2, SubnetConfiguration)]

NetworkStack(e) ==
    [id |-> "WordBashNetworkStack", env |-> e,
     vpc |-> Vpc(e, 2, 1, SubnetConfiguration)]

---------------------------------------------------------------------------
(* data_stack.py *)

\* faulty variant, for sensitivity checks: the flag only tested for presence
DataStackKeepIfPresent(c, e) ==
    [id |-> "WordBashDataStack", env |-> e,
     table |-> [id |-> "WordBashGamesTable",
                table_name |-> S_table_name,
                partition_key |-> [name |-> "game_id", type |-> "STRING"],
                billing_mode |-> "PAY_PER_REQUEST",
                removal_policy |-> IF try_get_context(c, "keep_data").t # "none"
                                   THEN "RETAIN" ELSE "DESTROY",
                table_arn |-> <<TOK_TABLE_ARN>>,
                table_name_ref |-> <<TOK_TABLE_NAME>>],
     outputs |-> [TableArn |-> [value |-> <<TOK_TABLE_ARN>>,
                                export_name |-> "WordBashDataStack-TableArn"],
                  TableName |-> [value |-> <<TOK_TABLE_NAME>>,
                                 export_name |-> "WordBashDataStack-TableName"]]]

DataStack(c, e) ==
    [id |-> "WordBashDataStack", env |-> e,
     table |-> [id |-> "WordBashGamesTable",
                table_name |-> S_table_name,
                partition_key |-> [name |-> "game_id", type |-> "STRING"],
                billing_mode |-> "PAY_PER_REQUEST",
                removal_policy |-> IF Truthy(try_get_context(c, "keep_data"))
                                   THEN "RETAIN" ELSE "DESTROY",
                table_arn |-> <<TOK_TABLE_ARN>>,
                table_name_ref |-> <<TOK_TABLE_NAME>>],
     outputs |-> [TableArn |-> [value |-> <<TOK_TABLE_ARN>>,
                                export_name |-> "WordBashDataStack-TableArn"],
                  TableName |-> [value |-> <<TOK_TABLE_NAME>>,
                                 export_name |-> "WordBashDataStack-TableName"]]]

---------------------------------------------------------------------------
(* compute_stack.py *)

\* Table.grant_read_write_data: the actions the grant allows on the table
ReadWriteDataActions ==
    {"dynamodb:BatchGetItem", "dynamodb:GetRecords", "dynamodb:GetShardIterator",
     "dynamodb:Query", "dynamodb:GetItem", "dynamodb:Scan",
     "dynamodb:ConditionCheckItem", "dynamodb:BatchWriteItem", "dynamodb:PutItem",
     "dynamodb:UpdateItem", "dynamodb:DeleteItem", "dynamodb:DescribeTable"}

grant_read_write_data(tbl, role) ==
    [role EXCEPT !.policy = Append(@, [actions |-> ReadWriteDataActions,
                                        resources |-> {tbl.table_arn}])]

Role(id) == [id |-> id, assumed_by |-> "ecs-tasks.amazonaws.com", policy |-> <<>>]

add_to_policy(role, statement) == [role EXCEPT !.policy = Append(@, statement)]

DockerImageAsset(id, directory) ==
    [id |-> id, directory |-> directory, platform |-> "linux/amd64"]

create_alb_security_group(vpc) ==
    [id |-> "AlbSecurityGroup", vpc |-> vpc.id,
     ingress |-> {[peer |-> "0.0.0.0/0", port |-> 80]}]

create_service_security_group(vpc, alb_sg) ==
    [id |-> "ServiceSecurityGroup", vpc |-> vpc.id,
     ingress |-> {[peer |-> alb_sg.id, port |-> 8080]}]

\* faulty variant, for sensitivity checks: the two capacities passed the wrong way round
auto_scale_task_count_swapped(max_capacity, min_capacity, policy_id, target_utilization_percent) ==
    [min_capacity |-> max_capacity, max_capacity |-> min_capacity,
     policy |-> [id |-> policy_id,
                 target_utilization_percent |-> target_utilization_percent]]

\* service.auto_scale_task_count(...) followed by scale_on_cpu_utilization(...)
auto_scale_task_count(max_capacity, min_capacity, policy_id, target_utilization_percent) ==
    [min_capacity |-> min_capacity, max_capacity |-> max_capacity,
     policy |-> [id |-> policy_id,
                 target_utilization_percent |-> target_utilization_percent]]

\* faulty variant, for sensitivity checks: the literal drifts from ws_param_path
WS_ENDPOINT_PARAM_drifted ==
    <<"/", "w", "o", "r", "d", "b", "a", "s", "h", "/", "w", "s", "_", "e", "n", "d", "p", "o", "i", "n", "t", "2">>

\* the literal handed to the web container (not derived from ws_param_path)
WS_ENDPOINT_PARAM ==
    <<"/", "w", "o", "r", "d", "b", "a", "s", "h", "/", "w", "s", "_", "e", "n", "d", "p", "o", "i", "n", "t">>

create_web_service(c, e, cluster, image, tbl, security_group) ==
    LET task_role == grant_read_write_data(tbl, Role("WebTaskRole"))
        task_def ==
            [id |-> "WebTaskDef", memory_limit_mib |-> 1024, cpu |-> 512,
             task_role |-> task_role,
             container |->
                [id |-> "WebContainer",
                 image |-> image,
                 container_port |-> 8080,
                 environment |->
                    [AWS_REGION |-> StackRegion(e),
                     LOG_LEVEL |-> S_INFO,
                     DDB_TABLE_NAME |-> tbl.table_name_ref,
                     WS_ENDPOINT_PARAM |-> WS_ENDPOINT_PARAM,
                     API_BASE_URL |-> OrStr(try_get_context(c, "api_base_url"), S_empty)],
                 logging |-> [stream_prefix |-> "web",
                              log_group_name |-> "/aws/ecs/wordbash-web",
                              retention |-> "TWO_WEEKS"]]]
    IN  [id |-> "WebService", cluster |-> cluster.id, task_definition |-> task_def,
         desired_count |-> 1, security_groups |-> {security_group.id},
         scaling |-> auto_scale_task_count(4, 1, "WebCpuScaling", 50)]

create_game_service(c, e, cluster, image, tbl, security_group) ==
    LET task_role == grant_read_write_data(tbl, Role("GameTaskRole"))
        task_def ==
            [id |-> "GameTaskDef", memory_limit_mib |-> 1024, cpu |-> 512,
             task_role |-> task_role,
             container |->
                [id |-> "GameContainer",
                 image |-> image,
                 container_port |-> 8080,
                 environment |->
                    [AWS_REGION |-> StackRegion(e),
                     LOG_LEVEL |-> S_INFO,
                     DDB_TABLE_NAME |-> tbl.table_name_ref],
                 logging |-> [stream_prefix |-> "game",
                              log_group_name |-> "/aws/ecs/wordbash-game",
                              retention |-> "TWO_WEEKS"]]]
    IN  [id |-> "GameService", cluster |-> cluster.id, task_definition |-> task_def,
         desired_count |-> 1, security_groups |-> {security_group.id},
         scaling |-> auto_scale_task_count(4, 1, "GameCpuScaling", 50)]

HealthCheck ==
    [path |-> S_healthz, healthy_threshold_count |-> 2, unhealthy_threshold_count |-> 3,
     timeout |-> 10, interval |-> 30]

create_web_target_group(vpc, service) ==
    [id |-> "WebTargetGroup", vpc |-> vpc.id, port |-> 8080, protocol |-> "HTTP",
     target_type |-> "IP", health_check |-> HealthCheck,
     attributes |-> <<>>,
     targets |-> {service.id}]

\* faulty variant, for sensitivity checks: the property override is left out
create_game_target_group_plain(vpc, service) ==
    [id |-> "GameTargetGroup", vpc |-> vpc.id, port |-> 8080, protocol |-> "HTTP",
     target_type |-> "IP", health_check |-> HealthCheck,
     attributes |-> <<>>,
     targets |-> {service.id}]

create_game_target_group(vpc, service) ==
    [id |-> "GameTargetGroup", vpc |-> vpc.id, port |-> 8080, protocol |-> "HTTP",
     target_type |-> "IP", health_check |-> HealthCheck,
     \* cfn_tg.add_property_override("TargetGroupAttributes", [...])
     attributes |-> << [Key |-> "deregistration_delay.timeout_seconds", Value |-> "30"],
                       [Key |-> "stickiness.enabled", Value |-> "true"],
                       [Key |-> "stickiness.type", Value |-> "lb_cookie"] >>,
     targets |-> {service.id}]

\* faulty variant, for sensitivity checks: the pattern written without the separating "/"
HttpListenerLoosePattern(web_tg, game_tg) ==
    [id |-> "HttpListener", port |-> 80, protocol |-> "HTTP",
     default_action |-> [forward |-> <<web_tg.id>>],
     rules |-> << [id |-> "WebSocketRule", priority |-> 100,
                   path_patterns |-> << <<"/", "w", "s", "*">> >>,
                   action |-> [forward |-> <<game_tg.id>>]] >>]

\* alb.add_listener(...) followed by http_listener.add_action(...)
HttpListener(web_tg, game_tg) ==
    [id |-> "HttpListener", port |-> 80, protocol |-> "HTTP",
     default_action |-> [forward |-> <<web_tg.id>>],
     rules |-> << [id |-> "WebSocketRule", priority |-> 100,
                   path_patterns |-> <<S_ws_pattern>>,
                   action |-> [forward |-> <<game_tg.id>>]] >>]

\* faulty variant, for sensitivity checks: the game path read from the web key
image_paths_same_key(c) ==
    [web_path |-> OrStr(try_get_context(c, "web_image_path"), S_web_default),
     game_path |-> OrStr(try_get_context(c, "web_image_path"), S_game_default)]

\* the configurable build-context paths
image_paths(c) ==
    [web_path |-> OrStr(try_get_context(c, "web_image_path"), S_web_default),
     game_path |-> OrStr(try_get_context(c, "game_image_path"), S_game_default)]

\* faulty variant, for sensitivity checks: the grant scoped to the whole /wordbash/ prefix
ws_param_statement_prefix(e, ws_param_path) ==
    [actions |-> {"ssm:GetParameter"},
     resources |-> {Concat(<<S_arn_ssm, StackRegion(e), S_colon, StackAccount(e),
                             S_colon_parameter,
                             <<"/", "w", "o", "r", "d", "b", "a", "s", "h", "/", "*">> >>)}]

\* iam.PolicyStatement granting the read of the published parameter
ws_param_statement(e, ws_param_path) ==
    [actions |-> {"ssm:GetParameter"},
     resources |-> {Concat(<<S_arn_ssm, StackRegion(e), S_colon, StackAccount(e),
                             S_colon_parameter, ws_param_path>>)}]

ComputeStack(c, e, vpc, tbl) ==
    LET web_path == image_paths(c).web_path
        game_path == image_paths(c).game_path
        cluster == [id |-> "WordBashCluster", vpc |-> vpc.id]
        alb_sg == create_alb_security_group(vpc)
        alb == [id |-> "WordBashALB", vpc |-> vpc.id, internet_facing |-> TRUE,
                security_group |-> alb_sg.id,
                load_balancer_dns_name |-> <<TOK_ALB_DNS>>]
        web_image == DockerImageAsset("WebImage", web_path)
        game_image == DockerImageAsset("GameImage", game_path)
        service_sg == create_service_security_group(vpc, alb_sg)
        web_service == create_web_service(c, e, cluster, web_image, tbl, service_sg)
        game_service == create_game_service(c, e, cluster, game_image, tbl, service_sg)
        web_tg == create_web_target_group(vpc, web_service)
        game_tg == create_game_target_group(vpc, game_service)
        http_listener == HttpListener(web_tg, game_tg)
        ws_endpoint == Concat(<<S_ws_scheme, alb.load_balancer_dns_name, S_ws_suffix>>)
        ws_param_path == S_ws_param_path
        ws_param == [id |-> "WsEndpointParam", parameter_name |-> ws_param_path,
                     string_value |-> ws_endpoint]
        ssm_statement == ws_param_statement(e, ws_param_path)
        web_role == add_to_policy(web_service.task_definition.task_role, ssm_statement)
    IN  [id |-> "WordBashComputeStack", env |-> e,
         cluster |-> cluster,
         alb_sg |-> alb_sg,
         alb |-> alb,
         service_sg |-> service_sg,
         web_service |-> [web_service EXCEPT !.task_definition.task_role = web_role],
         game_service |-> game_service,
         web_tg |-> web_tg,
         game_tg |-> game_tg,
         http_listener |-> http_listener,
         ws_param |-> ws_param,
         outputs |-> [AlbDnsName |-> alb.load_balancer_dns_name,
                      WebServiceUrl |-> Concat(<<S_http_scheme, alb.load_balancer_dns_name>>),
                      WebSocketUrl |-> ws_endpoint,
                      DynamoDbTableName |-> tbl.table_name_ref,
                      WsEndpointParamPath |-> ws_param_path]]

---------------------------------------------------------------------------
(* State *)

StackIds == {"WordBashNetworkStack", "WordBashDataStack", "WordBashComputeStack"}
Groups == {"web", "game"}

NotConstructed == [id |-> "none"]
NoEnv == [account |-> None, region |-> None]
NoAssembly == [stacks |-> {}, deps |-> {}]
NoRequest == [kind |-> "none", path |-> <<>>, target |-> <<>>]
NoCall == [group |-> "none", via |-> "none", name |-> <<>>, result |-> "none", value |-> <<>>]
NoRun == [runs |-> 0, ctx |-> [k \in ContextKeys |-> None],
          compute_stack |-> NotConstructed]

Service(cs, g) == IF g = "web" THEN cs.web_service ELSE cs.game_service
TargetGroups(cs) == {cs.web_tg, cs.game_tg}

Init ==
    /\ ctx \in Contexts
    /\ pc = "env"
    /\ env = NoEnv
    /\ network_stack = NotConstructed
    /\ data_stack = NotConstructed
    /\ compute_stack = NotConstructed
    /\ dependencies = {}
    /\ assembly = NoAssembly
    /\ status = [s \in StackIds |-> "absent"]
    /\ table = "none"
    /\ replicas = [g \in Groups |-> 0]
    /\ natDown = {}
    /\ routed = NoRequest
    /\ call = NoCall
    /\ prev = NoRun

runtime_vars == <<status, table, replicas, natDown, routed, call>>

\* the resources of a stack exist once the engine has applied it
NetworkApplied == pc = "done" /\ status[network_stack.id] = "done"
ComputeApplied == pc = "done" /\ status[compute_stack.id] = "done"

---------------------------------------------------------------------------
(* app.py, statement by statement *)

MakeEnv ==
    /\ pc = "env"
    /\ env' = Environment(ctx)
    /\ pc' = "network"
    /\ UNCHANGED <<ctx, network_stack, data_stack, compute_stack, dependencies,
                   assembly, prev>>
    /\ UNCHANGED runtime_vars

NetworkStackInit ==
    /\ pc = "network"
    /\ network_stack' = NetworkStack(env)
    /\ pc' = "data"
    /\ UNCHANGED <<ctx, env, data_stack, compute_stack, dependencies, assembly, prev>>
    /\ UNCHANGED runtime_vars

DataStackInit ==
    /\ pc = "data"
    /\ data_stack' = DataStack(ctx, env)
    /\ pc' = "compute"
    /\ UNCHANGED <<ctx, env, network_stack, compute_stack, dependencies, assembly, prev>>
    /\ UNCHANGED runtime_vars

ComputeStackInit ==
    /\ pc = "compute"
    /\ compute_stack' = ComputeStack(ctx, env, network_stack.vpc, data_stack.table)
    /\ pc' = "dep_network"
    /\ UNCHANGED <<ctx, env, network_stack, data_stack, dependencies, assembly, prev>>
    /\ UNCHANGED runtime_vars

\* compute_stack.add_dependency(target)
add_dependency(stack, target) == dependencies \cup {<<stack.id, target.id>>}

AddDependencyNetwork ==
    /\ pc = "dep_network"
    /\ dependencies' = add_dependency(compute_stack, network_stack)
    /\ pc' = "dep_data"
    /\ UNCHANGED <<ctx, env, network_stack, data_stack, compute_stack, assembly, prev>>
    /\ UNCHANGED runtime_vars

AddDependencyData ==
    /\ pc = "dep_data"
    /\ dependencies' = add_dependency(compute_stack, data_stack)
    /\ pc' = "synth"
    /\ UNCHANGED <<ctx, env, network_stack, data_stack, compute_stack, assembly, prev>>
    /\ UNCHANGED runtime_vars

\* the handles the compute stack was built from: vpc=network_stack.vpc and
\* table=data_stack.table make it consume the other stacks' exports
CrossStackReferences(ns, ds, cs) ==
    (IF cs.cluster.vpc = ns.vpc.id THEN {<<cs.id, ns.id>>} ELSE {})
        \cup (IF cs.outputs.DynamoDbTableName = ds.table.table_name_ref
              THEN {<<cs.id, ds.id>>} ELSE {})

\* faulty variant, for sensitivity checks: the data stack is neither referenced nor named
StackDependenciesNetworkOnly(explicit, refs) ==
    {d \in explicit \cup refs : d[2] = "WordBashNetworkStack"}

\* the ordering the assembly records: add_dependency calls and references
StackDependencies(explicit, refs) == explicit \cup refs

\* app.synth()
Synth ==
    /\ pc = "synth"
    /\ assembly' = [stacks |-> {network_stack.id, data_stack.id, compute_stack.id},
                    deps |-> StackDependencies(dependencies,
                                CrossStackReferences(network_stack, data_stack, compute_stack))]
    /\ status' = [s \in StackIds |-> "pending"]
    /\ pc' = "done"
    /\ UNCHANGED <<ctx, env, network_stack, data_stack, compute_stack, dependencies, prev>>
    /\ UNCHANGED <<table, replicas, natDown, routed, call>>

AppActions ==
    \/ MakeEnv
    \/ NetworkStackInit
    \/ DataStackInit
    \/ ComputeStackInit
    \/ AddDependencyNetwork
    \/ AddDependencyData
    \/ Synth

app_vars == <<ctx, pc, env, network_stack, data_stack, compute_stack, dependencies,
              assembly, prev>>

---------------------------------------------------------------------------
(* The provisioning engine: applies the stacks of the assembly, any stack   *)
(* whose dependencies are all applied, several at a time                    *)

Ready(s) == \A d \in assembly.deps : d[1] = s => status[d[2]] = "done"

BeginApply(s) ==
    /\ pc = "done"
    /\ s \in assembly.stacks
    /\ status[s] = "pending"
    /\ Ready(s)
    /\ status' = [status EXCEPT ![s] = "applying"]
    /\ UNCHANGED app_vars
    /\ UNCHANGED <<table, replicas, natDown, routed, call>>

EndApply(s) ==
    /\ status[s] = "applying"
    /\ status' = [status EXCEPT ![s] = "done"]
    /\ table' = IF s = data_stack.id THEN "active" ELSE table
    /\ replicas' = IF s = compute_stack.id
                   THEN [g \in Groups |-> Service(compute_stack, g).desired_count]
                   ELSE replicas
    /\ UNCHANGED app_vars
    /\ UNCHANGED <<natDown, routed, call>>

\* teardown: a stack goes once nothing deployed depends on it; the table
\* follows its removal policy
Destroy(s) ==
    /\ status[s] = "done"
    /\ \A d \in assembly.deps : d[2] = s => status[d[1]] \in {"pending", "destroyed"}
    /\ status' = [status EXCEPT ![s] = "destroyed"]
    /\ table' = IF s = data_stack.id
                THEN (IF data_stack.table.removal_policy = "RETAIN"
                      THEN "retained" ELSE "deleted")
                ELSE table
    /\ replicas' = IF s = compute_stack.id THEN [g \in Groups |-> 0] ELSE replicas
    /\ natDown' = IF s = network_stack.id THEN {} ELSE natDown
    /\ routed' = IF s = compute_stack.id THEN NoRequest ELSE routed
    /\ call' = IF s = compute_stack.id THEN NoCall ELSE call
    /\ UNCHANGED app_vars

EngineActions ==
    \/ \E s \in StackIds : BeginApply(s)
    \/ \E s \in StackIds : EndApply(s)

---------------------------------------------------------------------------
(* The load balancer: listener rules are tried in ascending priority, the   *)
(* default action last                                                      *)

RECURSIVE SortByPriority(_)
SortByPriority(rules) ==
    IF rules = {} THEN <<>>
    ELSE LET r == CHOOSE x \in rules : \A y \in rules : x.priority <= y.priority
         IN  <<r>> \o SortByPriority(rules \ {r})

RuleMatches(rule, path) == \E i \in DOMAIN rule.path_patterns : Glob(rule.path_patterns[i], path)

\* the ids of the listener's rules in the order they are evaluated
EvaluationOrder(listener) ==
    [i \in 1..Len(listener.rules) |-> SortByPriority(Range(listener.rules))[i].id]
        \o <<"default">>

\* the target groups a request for path is forwarded to
Route(listener, path) ==
    LET ordered == SortByPriority(Range(listener.rules))
        hits == {i \in DOMAIN ordered : RuleMatches(ordered[i], path)}
    IN  IF hits = {} THEN listener.default_action.forward
        ELSE ordered[CHOOSE i \in hits : \A j \in hits : i <= j].action.forward

\* the services behind a sequence of target groups
Backends(cs, tgs) ==
    UNION {tg.targets : tg \in {t \in TargetGroups(cs) : t.id \in Range(tgs)}}

PathAlphabet == {"/", "w", "s", "x"}

\* request paths of at most MaxPathLen characters
Paths ==
    UNION {{<<"/">> \o p : p \in [1..n -> PathAlphabet]} : n \in 0..(MaxPathLen - 1)}

Request(path) ==
    /\ ComputeApplied
    /\ routed = NoRequest
    /\ routed' = [kind |-> "request", path |-> path,
                  target |-> Route(compute_stack.http_listener, path)]
    /\ UNCHANGED app_vars
    /\ UNCHANGED <<status, table, replicas, natDown, call>>

\* a client connects to the WebSocket URL the stack publishes (the SSM
\* parameter's value or the WebSocketUrl output)
ConnectPublished ==
    /\ ComputeApplied
    /\ routed = NoRequest
    /\ \E url \in {compute_stack.ws_param.string_value, compute_stack.outputs.WebSocketUrl} :
          LET path == UrlPath(Resolve(url, Deployment(env)))
          IN  routed' = [kind |-> "published", path |-> path,
                         target |-> Route(compute_stack.http_listener, path)]
    /\ UNCHANGED app_vars
    /\ UNCHANGED <<status, table, replicas, natDown, call>>

\* the forwarded request completes
Complete ==
    /\ routed # NoRequest
    /\ routed' = NoRequest
    /\ UNCHANGED app_vars
    /\ UNCHANGED <<status, table, replicas, natDown, call>>

---------------------------------------------------------------------------
(* Autoscaling: target tracking on CPU, inside the declared bounds *)

ScaleOut(g) ==
    /\ ComputeApplied
    /\ \E cpu \in {0, 25, 50, 75, 100} :
          /\ cpu > Service(compute_stack, g).scaling.policy.target_utilization_percent
          /\ replicas[g] < Service(compute_stack, g).scaling.max_capacity
    /\ replicas' = [replicas EXCEPT ![g] = @ + 1]
    /\ UNCHANGED app_vars
    /\ UNCHANGED <<status, table, natDown, routed, call>>

ScaleIn(g) ==
    /\ ComputeApplied
    /\ \E cpu \in {0, 25, 50, 75, 100} :
          /\ cpu < Service(compute_stack, g).scaling.policy.target_utilization_percent
          /\ replicas[g] > Service(compute_stack, g).scaling.min_capacity
    /\ replicas' = [replicas EXCEPT ![g] = @ - 1]
    /\ UNCHANGED app_vars
    /\ UNCHANGED <<status, table, natDown, routed, call>>

---------------------------------------------------------------------------
(* NAT gateways and private-subnet egress *)

NatFail(z) ==
    /\ NetworkApplied
    /\ z \in network_stack.vpc.nat_gateways
    /\ z \notin natDown
    /\ natDown' = natDown \cup {z}
    /\ UNCHANGED app_vars
    /\ UNCHANGED <<status, table, replicas, routed, call>>

NatRecover(z) ==
    /\ NetworkApplied
    /\ z \in natDown
    /\ natDown' = natDown \ {z}
    /\ UNCHANGED app_vars
    /\ UNCHANGED <<status, table, replicas, routed, call>>

PrivateSubnets(vpc) == {sn \in vpc.subnets : sn.subnet_type = "PRIVATE_WITH_EGRESS"}
PublicSubnets(vpc) == {sn \in vpc.subnets : sn.subnet_type = "PUBLIC"}

\* a private subnet reaches the internet through the gateway its route names
HasEgress(vpc, sn, down) ==
    /\ vpc.nat_route[sn.az] \in vpc.nat_gateways
    /\ vpc.nat_route[sn.az] \notin down

---------------------------------------------------------------------------
(* IAM and the parameter store *)

\* whether role may perform action on the resource arn, in deployment d
Allowed(role, action, arn, d) ==
    \E i \in DOMAIN role.policy :
        /\ action \in role.policy[i].actions
        /\ \E r \in role.policy[i].resources : Glob(Resolve(r, d), arn)

ParameterArn(name, d) ==
    Concat(<<S_arn_ssm, d.region, S_colon, d.account, S_colon_parameter, name>>)

\* the parameters that exist once the compute stack is applied
ParameterStore(cs, d) == {[name |-> Resolve(cs.ws_param.parameter_name, d),
                           value |-> Resolve(cs.ws_param.string_value, d)]}

\* parameter names a container may ask for
ParamNames ==
    {S_ws_param_path,
     <<"/", "w", "o", "r", "d", "b", "a", "s", "h", "/", "w", "s", "_", "e", "n", "d", "p", "o", "i", "n", "t", "2">>,
     <<"/", "w", "o", "r", "d", "b", "a", "s", "h", "/", "o", "t", "h", "e", "r">>,
     <<"/", "w", "o", "r", "d", "b", "a", "s", "h", "/">>}

\* the outcome of ssm:GetParameter(name) called under role
GetParameterResult(cs, d, role, name) ==
    IF ~Allowed(role, "ssm:GetParameter", ParameterArn(name, d), d)
    THEN [result |-> "AccessDenied", value |-> <<>>]
    ELSE IF \E p \in ParameterStore(cs, d) : p.name = name
    THEN [result |-> "ok",
          value |-> (CHOOSE p \in ParameterStore(cs, d) : p.name = name).value]
    ELSE [result |-> "ParameterNotFound", value |-> <<>>]

GetParameter(g, name) ==
    /\ ComputeApplied
    /\ LET r == GetParameterResult(compute_stack, Deployment(env),
                                   Service(compute_stack, g).task_definition.task_role, name)
       IN  call' = [group |-> g, via |-> "name", name |-> name,
                    result |-> r.result, value |-> r.value]
    /\ UNCHANGED app_vars
    /\ UNCHANGED <<status, table, replicas, natDown, routed>>

\* a container that was handed WS_ENDPOINT_PARAM reads the parameter it names
ReadWsEndpoint(g) ==
    /\ ComputeApplied
    /\ "WS_ENDPOINT_PARAM" \in DOMAIN Service(compute_stack, g).task_definition.container.environment
    /\ LET name == Service(compute_stack, g).task_definition.container.environment.WS_ENDPOINT_PARAM
           r == GetParameterResult(compute_stack, Deployment(env),
                                   Service(compute_stack, g).task_definition.task_role, name)
       IN  call' = [group |-> g, via |-> "env", name |-> name,
                    result |-> r.result, value |-> r.value]
    /\ UNCHANGED app_vars
    /\ UNCHANGED <<status, table, replicas, natDown, routed>>

---------------------------------------------------------------------------
(* Synthesizing again with one context input changed *)

Resynth ==
    /\ pc = "done"
    /\ prev.runs < MaxResynth
    /\ \E k \in ContextKeys : \E v \in ContextValues(k) :
          /\ ctx' = [ctx EXCEPT ![k] = v]
          /\ prev' = [runs |-> prev.runs + 1, ctx |-> ctx,
                      compute_stack |-> compute_stack]
    /\ pc' = "env"
    /\ env' = NoEnv
    /\ network_stack' = NotConstructed
    /\ data_stack' = NotConstructed
    /\ compute_stack' = NotConstructed
    /\ dependencies' = {}
    /\ assembly' = NoAssembly
    /\ status' = [s \in StackIds |-> "absent"]
    /\ UNCHANGED <<table, replicas, natDown, routed, call>>

---------------------------------------------------------------------------
(* Specifications *)

\* synthesis, provisioning, the containers' parameter reads, teardown
Next ==
    \/ AppActions
    \/ EngineActions
    \/ \E s \in StackIds : Destroy(s)
    \/ \E g \in Groups : \E name \in ParamNames : GetParameter(g, name)
    \/ \E g \in Groups : ReadWsEndpoint(g)

Spec == Init /\ [][Next]_vars

\* synthesis, provisioning, requests through the listener
NextTraffic ==
    \/ AppActions
    \/ EngineActions
    \/ \E path \in Paths : Request(path)
    \/ ConnectPublished
    \/ Complete

SpecTraffic == Init /\ [][NextTraffic]_vars

\* synthesis, provisioning, autoscaling reactions, gateway outages
NextOperate ==
    \/ AppActions
    \/ EngineActions
    \/ \E g \in Groups : ScaleOut(g)
    \/ \E g \in Groups : ScaleIn(g)
    \/ \E z \in 1..3 : NatFail(z)
    \/ \E z \in 1..3 : NatRecover(z)

SpecOperate == Init /\ [][NextOperate]_vars

\* repeated synthesis
NextResynth ==
    \/ AppActions
    \/ Resynth

SpecResynth == Init /\ [][NextResynth]_vars

---------------------------------------------------------------------------
(* Properties *)

NET == "WordBashNetworkStack"
DATA == "WordBashDataStack"
COMPUTE == "WordBashComputeStack"

Constructed(stack) == stack.id # "none"

\* C1: whatever the context inputs, synthesis emits exactly the network, data
\* and compute stacks; the compute stack depends on both others and on nothing
\* else, the other two depend on nothing (so either may be applied first, or
\* both at once); and the compute stack is never being applied, or applied,
\* unless the network and the data stack have both finished.
C1_ComputeAfterNetworkAndData ==
    /\ pc = "done" =>
          /\ assembly.stacks = StackIds
          /\ network_stack.id = NET /\ data_stack.id = DATA /\ compute_stack.id = COMPUTE
          /\ assembly.deps = {<<COMPUTE, NET>>, <<COMPUTE, DATA>>}
          /\ Ready(NET) /\ Ready(DATA)
    /\ status[COMPUTE] \in {"applying", "done"} =>
          status[NET] = "done" /\ status[DATA] = "done"

\* C1 witness: the compute stack is being applied (after both others)
C1_Witness == status[COMPUTE] = "applying"

\* C1, the two independent stacks in flight together
C1_ParallelWitness == status[NET] = "applying" /\ status[DATA] = "applying"

PresentAndTruthy(v) ==
    /\ v # None
    /\ v # Bool(FALSE)
    /\ v # Str(<<>>)
    /\ v # Num(0)

\* C3: the table's removal policy is RETAIN exactly when keep_data is present
\* and truthy, and DESTROY otherwise, whatever the other context inputs are;
\* at teardown the table is kept or deleted accordingly.
C3_RemovalPolicyFollowsKeepData ==
    /\ Constructed(data_stack) =>
          /\ data_stack.table.removal_policy \in {"RETAIN", "DESTROY"}
          /\ data_stack.table.removal_policy = "RETAIN" <=> PresentAndTruthy(ctx["keep_data"])
    /\ table = "retained" => PresentAndTruthy(ctx["keep_data"])
    /\ table = "deleted" => ~PresentAndTruthy(ctx["keep_data"])

\* C3 witness: a table kept at teardown because the flag is a non-empty string
C3_Witness == table = "retained" /\ ctx["keep_data"].t = "str"

\* C5: the game target group carries exactly the three attribute overrides
\* (drain delay 30, stickiness enabled, lb_cookie), the web target group
\* carries none, and otherwise the two agree on port, protocol, target type
\* and health probe (/healthz, 2, 3, 10 s, 30 s).
C5_GameTargetGroupOverrides ==
    Constructed(compute_stack) =>
        LET w == compute_stack.web_tg
            g == compute_stack.game_tg
        IN  /\ g.attributes =
                  << [Key |-> "deregistration_delay.timeout_seconds", Value |-> "30"],
                     [Key |-> "stickiness.enabled", Value |-> "true"],
                     [Key |-> "stickiness.type", Value |-> "lb_cookie"] >>
            /\ w.attributes = <<>>
            /\ w.port = g.port /\ w.port = 8080
            /\ w.protocol = g.protocol /\ w.protocol = "HTTP"
            /\ w.target_type = g.target_type /\ w.target_type = "IP"
            /\ w.health_check = g.health_check
            /\ w.health_check = [path |-> <<"/", "h", "e", "a", "l", "t", "h", "z">>,
                                 healthy_threshold_count |-> 2,
                                 unhealthy_threshold_count |-> 3,
                                 timeout |-> 10, interval |-> 30]
            /\ w.targets = {"WebService"} /\ g.targets = {"GameService"}

\* C5 witness: the compute stack is applied with both target groups declared
C5_Witness ==
    /\ ComputeApplied
    /\ Len(compute_stack.game_tg.attributes) = 3
    /\ Len(compute_stack.web_tg.attributes) = 0

HasWildcard(str) == \E i \in DOMAIN str : str[i] \in {"*", "?"}

\* C7: the web task role may read the published parameter and no other
\* parameter, through a resource without wildcards; the game task role may
\* read none; the two roles are distinct and both may read and write the table.
C7_SsmReadGrantWebOnly ==
    /\ Constructed(compute_stack) =>
          LET d == Deployment(env)
              web == compute_stack.web_service.task_definition.task_role
              game == compute_stack.game_service.task_definition.task_role
              tableArn == ResolveToken(TOK_TABLE_ARN, d)
          IN  /\ web.id # game.id
              /\ \A name \in ParamNames :
                    /\ Allowed(web, "ssm:GetParameter", ParameterArn(name, d), d)
                          <=> name = S_ws_param_path
                    /\ ~Allowed(game, "ssm:GetParameter", ParameterArn(name, d), d)
              /\ \A i \in DOMAIN web.policy :
                    "ssm:GetParameter" \in web.policy[i].actions =>
                        \A r \in web.policy[i].resources : ~HasWildcard(Resolve(r, d))
              /\ \A role \in {web, game} :
                    \A a \in {"dynamodb:GetItem", "dynamodb:Query", "dynamodb:Scan",
                              "dynamodb:PutItem", "dynamodb:UpdateItem",
                              "dynamodb:DeleteItem"} :
                        Allowed(role, a, tableArn, d)
    /\ call.via = "name" =>
          (call.result = "ok" <=> (call.group = "web" /\ call.name = S_ws_param_path))

\* C7 witness: the game container asked for the published parameter and was refused
C7_Witness ==
    call.group = "game" /\ call.name = S_ws_param_path /\ call.result = "AccessDenied"

\* C10: the parameter's name, the resource of the web role's grant, the
\* WS_ENDPOINT_PARAM variable of the web container and the WsEndpointParamPath
\* output name one parameter; the game container gets no such variable; and a
\* container reading the parameter its variable names gets the endpoint.
C10_ParamPathAgrees ==
    /\ Constructed(compute_stack) =>
          LET d == Deployment(env)
              name == compute_stack.ws_param.parameter_name
              webEnv == compute_stack.web_service.task_definition.container.environment
              gameEnv == compute_stack.game_service.task_definition.container.environment
              web == compute_stack.web_service.task_definition.task_role
          IN  /\ webEnv.WS_ENDPOINT_PARAM = name
              /\ compute_stack.outputs.WsEndpointParamPath = name
              /\ \E i \in DOMAIN web.policy :
                    /\ web.policy[i].actions = {"ssm:GetParameter"}
                    /\ {Resolve(r, d) : r \in web.policy[i].resources}
                          = {ParameterArn(Resolve(name, d), d)}
              /\ "WS_ENDPOINT_PARAM" \notin DOMAIN gameEnv
    /\ call.via = "env" =>
          /\ call.group = "web"
          /\ call.result = "ok"
          /\ call.value = Resolve(compute_stack.outputs.WebSocketUrl, Deployment(env))

\* C10 witness: the web container read the parameter its variable names
C10_Witness == call.via = "env" /\ call.group = "web" /\ call.result = "ok"

IndexOf(seq, x) == CHOOSE i \in DOMAIN seq : seq[i] = x

UnderWsPrefix(path) == Len(path) >= 4 /\ SubSeq(path, 1, 4) = <<"/", "w", "s", "/">>

\* C2: the /ws/* rule has priority 100 and is evaluated before the default
\* action, so every request whose path lies under /ws/ is forwarded to the
\* game target group (and so to the game service) and every other request to
\* the web target group; each request goes to exactly one of the two.
C2_PathRuleBeforeDefault ==
    /\ Constructed(compute_stack) =>
          LET l == compute_stack.http_listener
              order == EvaluationOrder(l)
          IN  /\ Len(l.rules) = 1
              /\ l.rules[1].priority = 100
              /\ l.rules[1].path_patterns = << <<"/", "w", "s", "/", "*">> >>
              /\ IndexOf(order, "WebSocketRule") < IndexOf(order, "default")
    /\ routed # NoRequest =>
          /\ Len(routed.target) = 1
          /\ UnderWsPrefix(routed.path) =>
                /\ routed.target = <<"GameTargetGroup">>
                /\ Backends(compute_stack, routed.target) = {"GameService"}
          /\ ~UnderWsPrefix(routed.path) =>
                /\ routed.target = <<"WebTargetGroup">>
                /\ Backends(compute_stack, routed.target) = {"WebService"}

\* C2 witness: a request under /ws/ is being forwarded to the game group
C2_Witness ==
    /\ routed.kind = "request"
    /\ UnderWsPrefix(routed.path)
    /\ routed.target = <<"GameTargetGroup">>

\* C9: a connection to the published WebSocket URL is forwarded to the game
\* service.
C9_PublishedUrlReachesGame ==
    routed.kind = "published" =>
        Backends(compute_stack, routed.target) = {"GameService"}

\* C9, what the listener does with the published URL: its path is /ws, which
\* the /ws/* pattern does not match, and the web service receives it
C9_PublishedUrlFallsToWeb ==
    routed.kind = "published" =>
        /\ routed.path = <<"/", "w", "s">>
        /\ Backends(compute_stack, routed.target) = {"WebService"}

\* C4: both services declare min 1, max 4, a 50% CPU target and a default
\* count of 1 (inside the bounds), whatever the context; each group's replica
\* count stays within [1, 4] while the compute stack is applied; and a scaling
\* step of one group leaves the other group's count alone.
C4_ScalingBounds ==
    /\ [](Constructed(compute_stack) =>
            /\ \A g \in Groups :
                  LET svc == Service(compute_stack, g)
                  IN  /\ svc.scaling.min_capacity = 1
                      /\ svc.scaling.max_capacity = 4
                      /\ svc.scaling.policy.target_utilization_percent = 50
                      /\ svc.desired_count = 1
                      /\ svc.desired_count >= svc.scaling.min_capacity
                      /\ svc.desired_count <= svc.scaling.max_capacity
            /\ compute_stack.web_service.scaling.policy.id
                  # compute_stack.game_service.scaling.policy.id
            /\ ComputeApplied => \A g \in Groups : replicas[g] \in 1..4)
    /\ [][(ComputeApplied /\ ComputeApplied') =>
             \A g \in Groups : replicas'[g] # replicas[g] =>
                 \A h \in Groups \ {g} : replicas'[h] = replicas[h]]_vars

\* C4 witness: the web group scaled out to its maximum while game stayed at 1
C4_Witness == ComputeApplied /\ replicas["web"] = 4 /\ replicas["game"] = 1

\* C8: the network has two zones, each with one public and one private
\* subnet, and a single NAT gateway to which every private subnet's default
\* route points; with that gateway down no private subnet has egress, with it
\* up every one has.
C8_SingleNatGateway ==
    Constructed(network_stack) =>
        LET vpc == network_stack.vpc
        IN  /\ Cardinality(vpc.azs) = 2
            /\ \A a \in vpc.azs :
                  /\ Cardinality({sn \in PublicSubnets(vpc) : sn.az = a}) = 1
                  /\ Cardinality({sn \in PrivateSubnets(vpc) : sn.az = a}) = 1
            /\ Cardinality(vpc.subnets) = 4
            /\ Cardinality(vpc.nat_gateways) = 1
            /\ \A sn \in PrivateSubnets(vpc) : {vpc.nat_route[sn.az]} = vpc.nat_gateways
            /\ natDown # {} => \A sn \in PrivateSubnets(vpc) : ~HasEgress(vpc, sn, natDown)
            /\ natDown = {} => \A sn \in PrivateSubnets(vpc) : HasEgress(vpc, sn, natDown)

\* C8 witness: the gateway is down while the network is deployed
C8_Witness == NetworkApplied /\ natDown # {} /\ ComputeApplied

OnlyDiffersIn(c1, c2, key) ==
    /\ c1[key] # c2[key]
    /\ \A k \in ContextKeys \ {key} : c1[k] = c2[k]

\* C6: of two synthesis runs whose contexts differ only in web_image_path, the
\* game service (image, role, task shape, environment, logging, scaling) and
\* its target group are declared identically; and likewise the web service
\* and its target group when only game_image_path differs.
C6_ImagePathsDoNotInterfere ==
    (prev.runs > 0 /\ Constructed(compute_stack)) =>
        /\ OnlyDiffersIn(prev.ctx, ctx, "web_image_path") =>
              /\ prev.compute_stack.game_service = compute_stack.game_service
              /\ prev.compute_stack.game_tg = compute_stack.game_tg
        /\ OnlyDiffersIn(prev.ctx, ctx, "game_image_path") =>
              /\ prev.compute_stack.web_service = compute_stack.web_service
              /\ prev.compute_stack.web_tg = compute_stack.web_tg

\* C6 witness: a second run, synthesized with only web_image_path changed,
\* whose web image does differ from the first run's
C6_Witness ==
    /\ prev.runs > 0
    /\ pc = "done"
    /\ OnlyDiffersIn(prev.ctx, ctx, "web_image_path")
    /\ prev.compute_stack.web_service # compute_stack.web_service

=============================================================================
